---- MODULE Spec2Model ----
(***************************************************************************)
(* Model of the notebook Impact-ESG-aware-portfolio-selection.ipynb.       *)
(*                                                                         *)
(* The notebook is a linear script: its code cells run once, in order.     *)
(* pc names the cell that runs next; err names the exception that stopped  *)
(* the run ("none" while it is running).  The data provider (eikon) and    *)
(* the solver (scipy.optimize.minimize) are outside the repository: what   *)
(* they return is drawn from small sets.                                   *)
(*                                                                         *)
(* Numbers.  Floating-point values are modelled by integers on fixed       *)
(* grids, with three markers for the IEEE values the code can meet:        *)
(* NaN, PosInf and NegInf.  Weights are multiples of 1/WScale, returns     *)
(* multiples of 1/RetScale.                                                *)
(***************************************************************************)
EXTENDS Integers, Sequences, FiniteSets, TLC

VARIABLES
    pc,                 \* the cell that runs next, or "done"
    err,                \* "none", or the exception that stopped the run
    df_esg,             \* ric -> [esg, nace]: the provider's answer
    nace_code_list,     \* sector codes, aligned with ric_list
    df_esg_nace,        \* rows [ric, esg, nace_code] with a non-empty code
    df_esg_constraint,  \* rows [ric, esg, nace_code] of the universe
    K,                  \* len(df_esg_constraint.index)
    timeseries_data,    \* [columns, rows]: closing prices, one column per ric
    returns,            \* [columns, rows]: cleaned period returns
    covMatrix,          \* column x column -> covariance (scaled) or NaN
    mvp,                \* result of the minimum-volatility solve
    esg_ret_mvp,        \* result of the ESG-balanced solve
    impact_esg_mvp,     \* result of the impact-ESG-balanced solve
    weight,             \* df_esg_constraint['weight'] (<<>> before it is set)
    nace_impact,        \* df_esg_constraint['nace_impact'] (<<>> before)
    piesizes,           \* the last result of calcWeightsForPieChart
    impact_esg,         \* the last value of impact_esg_score(df_esg_constraint)
    mvp_impact_esg,     \* impact-ESG score of mvp
    mvp_ret_impact_esg, \* impact-ESG score of esg_ret_mvp
    printed,            \* the metrics printed after the solves
    compared,           \* the ESG / impact-ESG comparisons printed
    invoked             \* the solves for which sco.minimize was entered

inputVars == <<df_esg, nace_code_list, df_esg_nace>>
universeVars == <<df_esg_constraint, K>>
statVars == <<timeseries_data, returns, covMatrix>>
resultVars == <<mvp, esg_ret_mvp, impact_esg_mvp>>
columnVars == <<weight, nace_impact, piesizes>>
scoreVars == <<impact_esg, mvp_impact_esg, mvp_ret_impact_esg>>
logVars == <<printed, compared, invoked>>

vars == <<pc, err, inputVars, universeVars, statVars, resultVars, columnVars,
          scoreVars, logVars>>

----------------------------------------------------------------------------
(* Bounds of the model *)

\* number of constituents read from the provider (the notebook reads 350)
MaxN == 2

\* weights are multiples of 1/WScale
WScale == 2

----------------------------------------------------------------------------
(* Floating-point markers *)

NaN == 9001
PosInf == 9002
NegInf == 9003

IsFinite(v) == v \notin {NaN, PosInf, NegInf}

\* a >= b on floats: every comparison with NaN is False
Geq(a, b) ==
    IF a = NaN \/ b = NaN THEN FALSE
    ELSE IF a = PosInf \/ b = NegInf THEN TRUE
    ELSE IF a = NegInf \/ b = PosInf THEN FALSE
    ELSE a >= b

----------------------------------------------------------------------------
(* Generic helpers *)

Min2(a, b) == IF a <= b THEN a ELSE b
Max2(a, b) == IF a >= b THEN a ELSE b

RECURSIVE SumSeq(_)
SumSeq(s) == IF s = <<>> THEN 0 ELSE Head(s) + SumSeq(Tail(s))

RECURSIVE SelectRows(_, _)
\* the rows of s whose mask entry is TRUE, in order: df[mask]
SelectRows(s, mask) ==
    IF s = <<>> THEN <<>>
    ELSE IF Head(mask) THEN <<Head(s)>> \o SelectRows(Tail(s), Tail(mask))
         ELSE SelectRows(Tail(s), Tail(mask))

\* Python's s[lo:hi] for a sequence s and (possibly negative) indices
PyIndex(len, i) == IF i < 0 THEN Max2(len + i, 0) ELSE Min2(i, len)
PySlice(s, lo, hi) ==
    SubSeq(s, PyIndex(Len(s), lo) + 1, PyIndex(Len(s), hi))

----------------------------------------------------------------------------
(* Cell "get_data": the universe and its ESG / NACE data (lines 91-99) *)

Rics == 1..MaxN
ric_list == [i \in 1..MaxN |-> i]

\* TR.TRESGScore: a score, or NaN when the provider has none
EsgValues == {NaN, 60, 70, 85}

\* TR.NACEClassification is "DESCRIPTION (NACE) (XX.YY)"; the description is
\* shortened to one letter here
Classification(d1, d2) == <<"D", " ", "(", d1, d2, ".", "1", "0", ")">>

\* the classification strings the provider may return: none, three
\* well-formed ones and one without the parentheses
NaceStrings ==
    { <<>>,
      Classification("4", "1"),
      Classification("6", "4"),
      Classification("0", "4"),
      <<"4", "1", ".", "1", "0">> }

InstrumentData == [esg : EsgValues, nace : NaceStrings]

GetData ==
    /\ pc = "get_data" /\ err = "none"
    /\ \E d \in [Rics -> InstrumentData] : df_esg' = d
    /\ pc' = "nace"
    /\ UNCHANGED <<err, nace_code_list, df_esg_nace, universeVars, statVars,
                   resultVars, columnVars, scoreVars, logVars>>

----------------------------------------------------------------------------
(* Cell "nace": sector-code extraction (lines 121-127) *)

\* faulty variant: the slice taken one position too far to the right
NaceCodeShifted(nace) == PySlice(nace, -5, -3)

\* df_instr['nace'][-6:-4]
NaceCode(nace) == PySlice(nace, -6, -4)

\* df_nace['nace_code'].map(len) > 0
HasCode(code) == Len(code) > 0

ExtractNace ==
    /\ pc = "nace" /\ err = "none"
    /\ LET codes == [i \in 1..MaxN |-> NaceCode(df_esg[ric_list[i]].nace)]
           rows  == [i \in 1..MaxN |->
                        [ric |-> ric_list[i],
                         esg |-> df_esg[ric_list[i]].esg,
                         nace_code |-> codes[i]]]
       IN /\ nace_code_list' = codes
          /\ df_esg_nace' =
                SelectRows(rows, [i \in 1..MaxN |-> HasCode(codes[i])])
    /\ pc' = "filter"
    /\ UNCHANGED <<err, df_esg, universeVars, statVars, resultVars,
                   columnVars, scoreVars, logVars>>

----------------------------------------------------------------------------
(* Cell "filter": the ESG lower bound (lines 145-147) *)

esg_bound == 70

\* faulty variants: a strict comparison; a filter that forgets the bound
EsgAdmittedStrict(esg) == Geq(esg, esg_bound) /\ esg # esg_bound
EsgAdmittedAny(esg) == IsFinite(esg)

\* df_esg_nace.esg >= esg_bound
EsgAdmitted(esg) == Geq(esg, esg_bound)

\* .replace('', 'nan') on a cell of the frame
NanString == <<"n", "a", "n">>
ReplaceEmpty(code) == IF code = <<>> THEN NanString ELSE code

FilterEsg ==
    /\ pc = "filter" /\ err = "none"
    /\ LET kept == SelectRows(df_esg_nace,
                      [i \in 1..Len(df_esg_nace) |->
                          EsgAdmitted(df_esg_nace[i].esg)])
       IN /\ df_esg_constraint' =
                [i \in 1..Len(kept) |->
                    [kept[i] EXCEPT !.nace_code = ReplaceEmpty(@)]]
          /\ K' = Len(kept)
    /\ pc' = "timeseries"
    /\ UNCHANGED <<err, inputVars, statVars, resultVars, columnVars,
                   scoreVars, logVars>>

----------------------------------------------------------------------------
(* Cell "timeseries": closing prices of the universe (lines 166-180) *)

\* closing prices the provider may report; NaN marks a date without a value
PriceValues == {-1, 0, 1, 2}

\* price histories over three dates: two ordinary ones, a zero price followed
\* by a positive and by a negative one, a missing date, and two zero prices
PriceHistories ==
    { <<1, 2, 1>>,
      <<2, 1, 2>>,
      <<1, 0, 2>>,
      <<1, 0, -1>>,
      <<1, NaN, 2>>,
      <<0, 0, 1>> }

\* ek.get_timeseries raised: the except branch skips the instrument
FetchFailed == <<>>

\* DataFrame.dropna(): the rows without a NaN
DropNa(frame) ==
    [columns |-> frame.columns,
     rows |-> SelectRows(frame.rows,
                 [t \in 1..Len(frame.rows) |->
                     \A c \in 1..Len(frame.columns) : frame.rows[t][c] # NaN])]

\* pandas.concat(..., axis=1) over the loop: one column per fetched
\* instrument, one row per date, NaN where a series has no value
ConcatSeries(instruments, fetched) ==
    LET got  == SelectRows(instruments,
                   [i \in 1..Len(instruments) |-> fetched[i] # FetchFailed])
        hist == SelectRows(fetched,
                   [i \in 1..Len(instruments) |-> fetched[i] # FetchFailed])
        dates == IF hist = <<>> THEN 0 ELSE Len(hist[1])
    IN [columns |-> got,
        rows |-> [t \in 1..dates |-> [c \in 1..Len(got) |-> hist[c][t]]]]

LoadTimeseries ==
    /\ pc = "timeseries" /\ err = "none"
    /\ LET instruments == [i \in 1..K |-> df_esg_constraint[i].ric]
       IN \E fetched \in [1..K -> PriceHistories \cup {FetchFailed}] :
             timeseries_data' = DropNa(ConcatSeries(instruments, fetched))
    /\ pc' = "mvp"
    /\ UNCHANGED <<err, inputVars, universeVars, returns, covMatrix,
                   resultVars, columnVars, scoreVars, logVars>>

----------------------------------------------------------------------------
(* Statistics: returns and covariance (lines 201-202) *)

\* a \div b for b # 0, exact when b divides a
IntDiv(a, b) == IF b > 0 THEN a \div b ELSE (-a) \div (-b)

\* returns are multiples of 1/RetScale: the least scale at which every
\* quotient of two prices is an integer
RetScale ==
    CHOOSE m \in 1..4 :
        /\ \A q \in PriceValues \ {0} : m % (IF q > 0 THEN q ELSE -q) = 0
        /\ \A k \in 1..(m - 1) :
              \E q \in PriceValues \ {0} : k % (IF q > 0 THEN q ELSE -q) # 0

\* one entry of pct_change(): cur / prev - 1, in units of 1/RetScale
Pct(prev, cur) ==
    IF prev = 0
    THEN (IF cur > 0 THEN PosInf ELSE IF cur < 0 THEN NegInf ELSE NaN)
    ELSE IntDiv(RetScale * (cur - prev), prev)

\* DataFrame.pct_change(): the first row has no predecessor
PctChange(frame) ==
    [columns |-> frame.columns,
     rows |-> [t \in 1..Len(frame.rows) |->
                 [c \in 1..Len(frame.columns) |->
                     IF t = 1 THEN NaN
                     ELSE Pct(frame.rows[t - 1][c], frame.rows[t][c])]]]

\* .replace(numpy.inf, numpy.nan) on one entry
ReplaceInfValue(v) == IF v = PosInf THEN NaN ELSE v

ReplaceInf(frame) ==
    [columns |-> frame.columns,
     rows |-> [t \in 1..Len(frame.rows) |->
                 [c \in 1..Len(frame.columns) |->
                     ReplaceInfValue(frame.rows[t][c])]]]

\* timeseries_data.pct_change().replace(numpy.inf, numpy.nan).dropna()
ComputeReturns(frame) == DropNa(ReplaceInf(PctChange(frame)))

Column(frame, c) == [t \in 1..Len(frame.rows) |-> frame.rows[t][c]]

ColumnFinite(frame, c) ==
    \A t \in 1..Len(frame.rows) : IsFinite(frame.rows[t][c])

\* returns.sum() of one column, in units of 1/RetScale
ColumnSum(frame, c) ==
    IF ColumnFinite(frame, c) THEN SumSeq(Column(frame, c))
    ELSE IF \E t \in 1..Len(frame.rows) : frame.rows[t][c] = NaN THEN NaN
    ELSE NegInf

\* returns.cov(): entry (i, j) of the sample covariance.  With n rows it is
\*   (n * sum(ri*rj) - sum(ri) * sum(rj)) / (n * (n - 1)),
\* kept here as its numerator, i.e. in units of 1/(n*(n-1)*RetScale^2);
\* NaN with fewer than two rows or an infinite return in either column.
CovEntry(frame, i, j) ==
    LET n == Len(frame.rows)
    IN IF n < 2 \/ ~ColumnFinite(frame, i) \/ ~ColumnFinite(frame, j)
       THEN NaN
       ELSE n * SumSeq([t \in 1..n |-> frame.rows[t][i] * frame.rows[t][j]])
              - ColumnSum(frame, i) * ColumnSum(frame, j)

Cov(frame) ==
    [i \in 1..Len(frame.columns) |->
        [j \in 1..Len(frame.columns) |-> CovEntry(frame, i, j)]]

\* the factor n * (n - 1) by which covMatrix is scaled
CovScale == Len(returns.rows) * (Len(returns.rows) - 1)

----------------------------------------------------------------------------
(* Floating-point arithmetic on the modelled values *)

FMul(a, b) ==
    IF a = NaN \/ b = NaN THEN NaN
    ELSE IF ~IsFinite(a) \/ ~IsFinite(b)
    THEN (IF a = 0 \/ b = 0 THEN NaN
          ELSE IF (a = NegInf \/ (IsFinite(a) /\ a < 0))
                    # (b = NegInf \/ (IsFinite(b) /\ b < 0))
               THEN NegInf ELSE PosInf)
    ELSE a * b

FAdd(a, b) ==
    IF a = NaN \/ b = NaN THEN NaN
    ELSE IF ~IsFinite(a) /\ ~IsFinite(b) THEN (IF a = b THEN a ELSE NaN)
    ELSE IF ~IsFinite(a) THEN a
    ELSE IF ~IsFinite(b) THEN b
    ELSE a + b

RECURSIVE FSum(_)
FSum(s) == IF s = <<>> THEN 0 ELSE FAdd(Head(s), FSum(Tail(s)))

\* numpy.dot of two vectors of the same length
Dot(x, v) == FSum([i \in 1..Len(x) |-> FMul(x[i], v[i])])

----------------------------------------------------------------------------
(* Objectives (lines 204-205, 211, 292, 412) *)

\* risk_measure: numpy.dot(weights, numpy.dot(covMatrix, weights)), in units
\* of 1/(WScale^2 * n*(n-1) * RetScale^2)
risk_measure(cov, weights) ==
    Dot(weights, [i \in 1..Len(cov) |-> Dot(cov[i], weights)])

\* the blend coefficients 0.0002, 0.00002 and 0.000004 as multiples of
\* 1/CoefDen
CoefDen == 250000
RetCoef == 50
EsgCoef == 5
ImpactCoef == 1

\* returns.sum()
TotalReturn(rets) == [c \in 1..Len(rets.columns) |-> ColumnSum(rets, c)]

\* df_esg_constraint['esg']
EsgVector(df) == [i \in 1..Len(df) |-> df[i].esg]

\* faulty variant: the rewards added to the risk instead of subtracted
BlendedObjectiveAdded(cov, total, nn, score, scoreCoef, x) ==
    FAdd(FMul(CoefDen, risk_measure(cov, x)),
         FAdd(FMul(RetCoef * WScale * nn * RetScale, Dot(x, total)),
              FMul(scoreCoef * WScale * nn * RetScale * RetScale,
                   Dot(x, score))))

\* risk - returnCoef * (x . total) - scoreCoef * (x . score), where total is
\* returns.sum(), times CoefDen * WScale^2 * nn * RetScale^2 with
\* nn = n*(n-1) the scale of the covariance (positive whenever the
\* covariance is finite, so the minimizers are those of the objective)
BlendedObjective(cov, total, nn, score, scoreCoef, x) ==
    FAdd(FMul(CoefDen, risk_measure(cov, x)),
         FMul(-1,
              FAdd(FMul(RetCoef * WScale * nn * RetScale, Dot(x, total)),
                   FMul(scoreCoef * WScale * nn * RetScale * RetScale,
                        Dot(x, score)))))

----------------------------------------------------------------------------
(* The solver call: sco.minimize(objective, K * [1 / K], bounds=bounds,    *)
(* constraints=constraints) (lines 207-215)                                *)

\* bounds = K * [(0, 1)]
InBounds(x) == \A i \in 1..Len(x) : IsFinite(x[i]) /\ 0 <= x[i] /\ x[i] <= WScale

\* constraints: weights.sum() - 1 == 0
ConstraintHolds(x) == FSum(x) = WScale

\* the points of the weight grid the solver may return as an optimum
FeasibleSet(k) ==
    {x \in [1..k -> 0..WScale] : InBounds(x) /\ ConstraintHolds(x)}

\* what a solve that does not converge leaves in x is not specified: an
\* iterate at the lower or at the upper bounds, or NaN
FailedX(k) == {[i \in 1..k |-> v] : v \in {0, WScale, NaN}}

\* the results sco.minimize may return for an objective over k weights,
\* the objective given by its values on the feasible set: success with a
\* minimizer over the feasible set, or failure
\* (the objective as the set of its pairs <<x, objective[x]>>)
Minimizers(value) ==
    {p[1] : p \in {q \in value :
                     /\ \A r \in value : IsFinite(r[2])
                     /\ \A r \in value : q[2] <= r[2]}}

Minimize(objective, k) ==
    UNION {{[x |-> x, success |-> TRUE] : x \in Minimizers(value)} :
              value \in {{<<x, objective[x]>> : x \in DOMAIN objective}}}
      \cup {[x |-> x, success |-> FALSE] : x \in FailedX(k)}

\* the metrics a cell prints for a result; numpy.min over the nonzero
\* weights raises ValueError when there is none
HasNonzero(x) == \E i \in 1..Len(x) : x[i] # 0

\* numpy.min / numpy.max of a non-empty vector: NaN if an entry is NaN
FMin(s) ==
    IF \E i \in 1..Len(s) : s[i] = NaN THEN NaN
    ELSE CHOOSE v \in {s[i] : i \in 1..Len(s)} :
            \A i \in 1..Len(s) : v <= s[i]
FMax(s) ==
    IF \E i \in 1..Len(s) : s[i] = NaN THEN NaN
    ELSE CHOOSE v \in {s[i] : i \in 1..Len(s)} :
            \A i \in 1..Len(s) : v >= s[i]

\* n counts the weights above 1e-4, which on the grid are the positive ones
Metrics(strategy, res, cov, rets, df) ==
    [strategy |-> strategy,
     n |-> Cardinality({i \in 1..Len(res.x) : res.x[i] # NaN /\ res.x[i] > 0}),
     minw |-> FMin(SelectRows(res.x, [i \in 1..Len(res.x) |-> res.x[i] # 0])),
     maxw |-> FMax(res.x),
     risk |-> risk_measure(cov, res.x),
     r |-> Dot(res.x, TotalReturn(rets)),
     esg |-> Dot(res.x, EsgVector(df))]


\* faulty variant: an initial guess built without the division
InitialGuessNeverRaises(k) == FALSE

\* K * [1 / K]: the division 1 / K raises ZeroDivisionError for K = 0,
\* while the arguments of the call are evaluated
InitialGuessRaises(k) == k = 0

\* one call of sco.minimize with the initial guess K * [1 / K], and the
\* print of the result's metrics that follows it in the same cell
Solve(strategy, objective, cov, rets, nextpc) ==
    IF InitialGuessRaises(K)
    THEN \* the call is never made
         /\ err' = "ZeroDivisionError"
         /\ UNCHANGED <<pc, resultVars, printed, invoked>>
    ELSE /\ invoked' = invoked \cup {strategy}
         /\ IF Len(cov) # K
            THEN \* numpy.dot in the objective: shapes not aligned
                 /\ err' = "ValueError"
                 /\ UNCHANGED <<pc, resultVars, printed>>
            ELSE \E res \in Minimize(objective, K) :
                   /\ mvp' = IF strategy = "mvp" THEN res ELSE mvp
                   /\ esg_ret_mvp' =
                         IF strategy = "esg_ret_mvp" THEN res ELSE esg_ret_mvp
                   /\ impact_esg_mvp' =
                         IF strategy = "impact_esg_mvp" THEN res
                         ELSE impact_esg_mvp
                   /\ IF HasNonzero(res.x)
                      THEN /\ printed' = printed \cup
                                {Metrics(strategy, res, cov, rets,
                                         df_esg_constraint)}
                           /\ pc' = nextpc
                           /\ err' = err
                      ELSE \* numpy.min of an empty array
                           /\ err' = "ValueError"
                           /\ UNCHANGED <<pc, printed>>

----------------------------------------------------------------------------
(* Cell "mvp": statistics and the minimum-volatility solve (lines 201-229) *)

SolveMvp ==
    /\ pc = "mvp" /\ err = "none"
    /\ \E rets \in {ComputeReturns(timeseries_data)} :
         \E cov \in {Cov(rets)} :
            /\ returns' = rets
            /\ covMatrix' = cov
            /\ Solve("mvp", [x \in FeasibleSet(K) |-> risk_measure(cov, x)],
                     cov, rets,
                     "weights_mvp")
    /\ UNCHANGED <<inputVars, universeVars, timeseries_data, columnVars,
                   scoreVars, compared>>

----------------------------------------------------------------------------
(* Sector aggregation and the pie chart's labels (lines 247-273) *)

Digits == <<"0", "1", "2", "3", "4", "5", "6", "7", "8", "9">>
Code2(n) == <<Digits[(n \div 10) + 1], Digits[(n % 10) + 1]>>

\* the NACE divisions nace_dict has a label for
NaceDivisions ==
    (1..3) \cup (5..33) \cup (35..39) \cup (41..43) \cup (45..47)
      \cup (49..53) \cup (55..56) \cup (58..66) \cup (68..75) \cup (77..82)
      \cup (84..88) \cup (90..99)

\* nace_dict.keys()
NaceDictKeys == {Code2(n) : n \in NaceDivisions} \cup {NanString}

\* faulty variant: a sector gets the weight of its first instrument only
calcWeightsFirstOnly(df, w) ==
    LET codes == [i \in 1..Len(df) |-> ReplaceEmpty(df[i].nace_code)]
        sections == {codes[i] : i \in {j \in 1..Len(df) : Len(codes[j]) > 0}}
    IN [s \in sections |->
           w[CHOOSE i \in 1..Len(df) :
                codes[i] = s /\ \A j \in 1..(i - 1) : codes[j] # s]]

calcWeightsForPieChart(df, w) ==
    LET codes == [i \in 1..Len(df) |-> ReplaceEmpty(df[i].nace_code)]
        sections == {codes[i] : i \in {j \in 1..Len(df) : Len(codes[j]) > 0}}
    IN [s \in sections |->
           FSum(SelectRows(w, [i \in 1..Len(df) |-> codes[i] = s]))]

\* plotPieChartWithNACELabels builds its labels with nace_dict[x]
LabelsOk(sizes) == \A x \in DOMAIN sizes : x \in NaceDictKeys

\* df_esg_constraint['weight'] = x; piesizes = calcWeightsForPieChart(...);
\* plotPieChartWithNACELabels(nace_dict, piesizes)
AssignWeights(x, nextpc) ==
    LET sizes == calcWeightsForPieChart(df_esg_constraint, x)
    IN /\ weight' = x
       /\ piesizes' = sizes
       /\ IF LabelsOk(sizes)
          THEN pc' = nextpc /\ err' = err
          ELSE pc' = pc /\ err' = "KeyError"

WeightsMvp ==
    /\ pc = "weights_mvp" /\ err = "none"
    /\ AssignWeights(mvp.x, "esg_ret")
    /\ UNCHANGED <<inputVars, universeVars, statVars, resultVars, nace_impact,
                   scoreVars, logVars>>

----------------------------------------------------------------------------
(* Cell "esg_ret": the ESG-balanced solve (lines 292-310) *)

SolveEsgRet ==
    /\ pc = "esg_ret" /\ err = "none"
    /\ \E total \in {TotalReturn(returns)} :
       \E score \in {EsgVector(df_esg_constraint)} :
          Solve("esg_ret_mvp",
             [x \in FeasibleSet(K) |->
                 BlendedObjective(covMatrix, total, CovScale, score,
                                  EsgCoef, x)],
             covMatrix, returns, "weights_esg_ret")
    /\ UNCHANGED <<inputVars, universeVars, statVars, columnVars, scoreVars,
                   compared>>

WeightsEsgRet ==
    /\ pc = "weights_esg_ret" /\ err = "none"
    /\ AssignWeights(esg_ret_mvp.x, "impact")
    /\ UNCHANGED <<inputVars, universeVars, statVars, resultVars, nace_impact,
                   scoreVars, logVars>>

----------------------------------------------------------------------------
(* Cell "impact": the impact-weight table (lines 350-353) *)

\* nace_impact_dict: 0 for every key of nace_dict, 10 for '41'
nace_impact_dict ==
    [key \in NaceDictKeys |-> IF key = <<"4", "1">> THEN 10 ELSE 0]

\* nace_impact_dict[x] raises KeyError for a code that is no key
HasImpact(code) == code \in DOMAIN nace_impact_dict

\* df_esg_constraint['nace_code'].apply(lambda x: nace_impact_dict[x])
AttachImpactFrom(at, nextpc) ==
    /\ pc = at /\ err = "none"
    /\ IF \A i \in 1..Len(df_esg_constraint) :
             HasImpact(df_esg_constraint[i].nace_code)
       THEN /\ nace_impact' =
                 [i \in 1..Len(df_esg_constraint) |->
                     nace_impact_dict[df_esg_constraint[i].nace_code]]
            /\ pc' = nextpc
            /\ err' = err
       ELSE /\ err' = "KeyError"
            /\ UNCHANGED <<pc, nace_impact>>
    /\ UNCHANGED <<inputVars, universeVars, statVars, resultVars, weight,
                   piesizes, scoreVars, logVars>>

AttachImpact == AttachImpactFrom("impact", "scores")

----------------------------------------------------------------------------
(* Cells "scores" and "compare": impact-ESG scores (lines 374, 390-392,    *)
(* 447-459)                                                                *)

\* faulty variant: the parentheses forgotten
ImpactEsgScoreNoParens(impact, esg) == FAdd(FMul(impact, esg), -esg_bound)

\* impact_esg_score on one row: df['nace_impact'] * (df['esg'] - esg_bound)
ImpactEsgScore(impact, esg) == FMul(impact, FAdd(esg, -esg_bound))

\* impact_esg_score(df_esg_constraint)
ImpactEsgVector(df, impact) ==
    [i \in 1..Len(df) |-> ImpactEsgScore(impact[i], df[i].esg)]

Comparison(strategy, res, score) ==
    [strategy |-> strategy,
     esg |-> Dot(res.x, EsgVector(df_esg_constraint)),
     impact_esg |-> Dot(res.x, score)]

Scores ==
    /\ pc = "scores" /\ err = "none"
    /\ LET score == ImpactEsgVector(df_esg_constraint, nace_impact)
       IN /\ impact_esg' = score
          /\ mvp_impact_esg' = Dot(mvp.x, score)
          /\ mvp_ret_impact_esg' = Dot(esg_ret_mvp.x, score)
          /\ compared' = compared \cup
                {Comparison("mvp", mvp, score),
                 Comparison("esg_ret_mvp", esg_ret_mvp, score)}
    /\ pc' = "impact_solve"
    /\ UNCHANGED <<err, inputVars, universeVars, statVars, resultVars,
                   columnVars, printed, invoked>>

----------------------------------------------------------------------------
(* Cell "impact_solve": the impact-ESG-balanced solve (lines 412-431) *)

SolveImpactEsg ==
    /\ pc = "impact_solve" /\ err = "none"
    /\ \E total \in {TotalReturn(returns)} :
       \E score \in {ImpactEsgVector(df_esg_constraint, nace_impact)} :
          Solve("impact_esg_mvp",
             [x \in FeasibleSet(K) |->
                 BlendedObjective(covMatrix, total, CovScale, score,
                                  ImpactCoef, x)],
             covMatrix, returns, "compare")
    /\ UNCHANGED <<inputVars, universeVars, statVars, columnVars, scoreVars,
                   compared>>

Compare ==
    /\ pc = "compare" /\ err = "none"
    /\ LET score == ImpactEsgVector(df_esg_constraint, nace_impact)
       IN /\ impact_esg' = score
          /\ mvp_impact_esg' = Dot(mvp.x, score)
          /\ mvp_ret_impact_esg' = Dot(esg_ret_mvp.x, score)
          /\ compared' = compared \cup
                {Comparison("mvp", mvp, score),
                 Comparison("esg_ret_mvp", esg_ret_mvp, score),
                 Comparison("impact_esg_mvp", impact_esg_mvp, score)}
    /\ pc' = "weights_impact"
    /\ UNCHANGED <<err, inputVars, universeVars, statVars, resultVars,
                   columnVars, printed, invoked>>

WeightsImpactEsg ==
    /\ pc = "weights_impact" /\ err = "none"
    /\ AssignWeights(impact_esg_mvp.x, "done")
    /\ UNCHANGED <<inputVars, universeVars, statVars, resultVars, nace_impact,
                   scoreVars, logVars>>

----------------------------------------------------------------------------
(* The score-provider cells on their own: cell "impact" and the evaluation *)
(* of impact_esg_score read only df_esg_constraint, esg_bound and the      *)
(* impact-weight table, so they can be run right after cell "filter".      *)

ScoreAttachImpact == AttachImpactFrom("timeseries", "score_only")

ScoreEvaluate ==
    /\ pc = "score_only" /\ err = "none"
    /\ impact_esg' = ImpactEsgVector(df_esg_constraint, nace_impact)
    /\ pc' = "done"
    /\ UNCHANGED <<err, inputVars, universeVars, statVars, resultVars,
                   columnVars, mvp_impact_esg, mvp_ret_impact_esg, logVars>>

----------------------------------------------------------------------------
(* The three solves and the three weight assignments as statements of      *)
(* their own.  Each sco.minimize call reads covMatrix, returns, K, bounds,  *)
(* constraints and columns of df_esg_constraint (lines 211, 292, 412);     *)
(* once the statistics (lines 201-209) and the impact column (line 353)    *)
(* exist, the statements can be run in any order.                          *)

Strategies == {"mvp", "esg_ret_mvp", "impact_esg_mvp"}

Stored(strategy) ==
    IF strategy = "mvp" THEN mvp
    ELSE IF strategy = "esg_ret_mvp" THEN esg_ret_mvp
    ELSE impact_esg_mvp

\* faulty variant: the blended objectives read the weight column of
\* df_esg_constraint, when it exists, in place of the ESG column
ObjectiveReadsWeight(strategy) ==
    [x \in FeasibleSet(K) |->
        IF strategy = "mvp" THEN risk_measure(covMatrix, x)
        ELSE BlendedObjective(covMatrix, TotalReturn(returns), CovScale,
                 IF Len(weight) = K THEN weight
                 ELSE EsgVector(df_esg_constraint),
                 IF strategy = "esg_ret_mvp" THEN EsgCoef ELSE ImpactCoef, x)]

\* the function a solve passes to sco.minimize, on the feasible weights
Objective(strategy) ==
    [x \in FeasibleSet(K) |->
        IF strategy = "mvp" THEN risk_measure(covMatrix, x)
        ELSE IF strategy = "esg_ret_mvp"
        THEN BlendedObjective(covMatrix, TotalReturn(returns), CovScale,
                              EsgVector(df_esg_constraint), EsgCoef, x)
        ELSE BlendedObjective(covMatrix, TotalReturn(returns), CovScale,
                              ImpactEsgVector(df_esg_constraint, nace_impact),
                              ImpactCoef, x)]

\* returns, covMatrix, risk_measure, bounds, constraints (lines 201-209)
OrderStatistics ==
    /\ pc = "mvp" /\ err = "none"
    /\ \E rets \in {ComputeReturns(timeseries_data)} :
          /\ returns' = rets
          /\ covMatrix' = Cov(rets)
    /\ pc' = "order_impact"
    /\ UNCHANGED <<err, inputVars, universeVars, timeseries_data, resultVars,
                   columnVars, scoreVars, logVars>>

OrderAttachImpact == AttachImpactFrom("order_impact", "any")

\* one of the three sco.minimize calls with its print; each is run once
OrderSolve ==
    /\ pc = "any" /\ err = "none"
    /\ \E strategy \in Strategies \ invoked :
          \E objective \in {Objective(strategy)} :
             Solve(strategy, objective, covMatrix, returns, "any")
    /\ UNCHANGED <<inputVars, universeVars, statVars, columnVars, scoreVars,
                   compared>>

\* one of the three assignments of a stored result to the weight column
OrderAssign ==
    /\ pc = "any" /\ err = "none"
    /\ \E strategy \in Strategies :
          /\ Stored(strategy).x # <<>>
          /\ AssignWeights(Stored(strategy).x, "any")
    /\ UNCHANGED <<inputVars, universeVars, statVars, resultVars, nace_impact,
                   scoreVars, logVars>>

----------------------------------------------------------------------------
(* Specifications *)

NoResult == [x |-> <<>>, success |-> FALSE]
NoFrame == [columns |-> <<>>, rows |-> <<>>]

Init ==
    /\ pc = "get_data"
    /\ err = "none"
    /\ df_esg = <<>>
    /\ nace_code_list = <<>>
    /\ df_esg_nace = <<>>
    /\ df_esg_constraint = <<>>
    /\ K = 0
    /\ timeseries_data = NoFrame
    /\ returns = NoFrame
    /\ covMatrix = <<>>
    /\ mvp = NoResult
    /\ esg_ret_mvp = NoResult
    /\ impact_esg_mvp = NoResult
    /\ weight = <<>>
    /\ nace_impact = <<>>
    /\ piesizes = <<>>
    /\ impact_esg = <<>>
    /\ mvp_impact_esg = 0
    /\ mvp_ret_impact_esg = 0
    /\ printed = {}
    /\ compared = {}
    /\ invoked = {}

\* the notebook run from top to bottom
Next ==
    \/ GetData
    \/ ExtractNace
    \/ FilterEsg
    \/ LoadTimeseries
    \/ SolveMvp
    \/ WeightsMvp
    \/ SolveEsgRet
    \/ WeightsEsgRet
    \/ AttachImpact
    \/ Scores
    \/ SolveImpactEsg
    \/ Compare
    \/ WeightsImpactEsg

Spec == Init /\ [][Next]_vars

\* the universe and score cells only
NextScore ==
    \/ GetData
    \/ ExtractNace
    \/ FilterEsg
    \/ ScoreAttachImpact
    \/ ScoreEvaluate

SpecScore == Init /\ [][NextScore]_vars

\* the solves and the weight assignments in any order
NextOrder ==
    \/ GetData
    \/ ExtractNace
    \/ FilterEsg
    \/ LoadTimeseries
    \/ OrderStatistics
    \/ OrderAttachImpact
    \/ OrderSolve
    \/ OrderAssign

SpecOrder == Init /\ [][NextOrder]_vars

----------------------------------------------------------------------------
(* Properties *)

PastFilter == pc \notin {"get_data", "nace", "filter"}

\* the results the solves have stored so far
Produced == {res \in {mvp, esg_ret_mvp, impact_esg_mvp} : res.x # <<>>}

ResultOf(strategy) ==
    IF strategy = "mvp" THEN mvp
    ELSE IF strategy = "esg_ret_mvp" THEN esg_ret_mvp
    ELSE impact_esg_mvp

\* components in [0, 1] and summing to 1; the grid step is far above the
\* tolerance 1e-6, so on the grid this is exact
OnSimplex(x) ==
    /\ \A i \in 1..Len(x) : x[i] \in 0..WScale
    /\ SumSeq(x) = WScale

InUniverse(r) ==
    \E i \in 1..Len(df_esg_constraint) : df_esg_constraint[i].ric = r

\* C1: every weight vector a solve produces, converged or not, has its
\* components in [0, 1] and summing to 1.
C1_WeightsOnSimplex == \A res \in Produced : OnSimplex(res.x)

\* C2: the convergence flag of a result is checked before its weights are
\* used: metrics and comparisons are printed, and the weight column and the
\* sector totals are set, only from a result that converged.
C2_NonConvergenceNeverAccepted ==
    /\ \A m \in printed : ResultOf(m.strategy).success
    /\ \A c \in compared : ResultOf(c.strategy).success
    /\ (pc = "esg_ret" => mvp.success)
    /\ (pc = "impact" => esg_ret_mvp.success)
    /\ (pc = "done" => impact_esg_mvp.success)

C4_SingleInstrumentShortCircuit ==
    (PastFilter /\ K = 1) =>
        /\ invoked = {}
        /\ \A res \in Produced : res.x = <<WScale>>

\* C5: a sector code that is no key of the impact-weight table gets impact
\* weight 0; attaching the impact weights never fails with a KeyError.
C5_UnmappedCodeDefaultsToZero ==
    /\ err # "KeyError"
    /\ (pc \in {"score_only", "done"} =>
          /\ Len(nace_impact) = K
          /\ \A i \in 1..K :
                df_esg_constraint[i].nace_code \notin NaceDictKeys
                    => nace_impact[i] = 0)

\* C6: when the cleaned returns have no period, or fewer periods than
\* instruments, the run does not go on to optimize as if the data were
\* sufficient: a solve returns a result only with at least one period and
\* at least as many periods as instruments.
C6_InsufficientDataSurfaced ==
    Produced # {} =>
        /\ Len(returns.rows) >= 1
        /\ Len(returns.rows) >= K

\* C7: every infinite value of the percentage change, positive or negative,
\* is dropped with its period: no entry of the cleaned returns, and so no
\* input of the covariance, is infinite or missing.
C7_NoInfiniteReturns ==
    \A t \in 1..Len(returns.rows) :
        \A c \in 1..Len(returns.columns) : IsFinite(returns.rows[t][c])

C9_EsgAtLeastBound ==
    /\ \A m \in printed :
          (ResultOf(m.strategy).success \/ OnSimplex(ResultOf(m.strategy).x))
              => m.esg # NaN /\ m.esg >= esg_bound * WScale
    /\ \A c \in compared :
          (ResultOf(c.strategy).success \/ OnSimplex(ResultOf(c.strategy).x))
              => c.esg # NaN /\ c.esg >= esg_bound * WScale

C9_Witness ==
    /\ K = 2
    /\ mvp.success
    /\ \A i \in 1..2 : mvp.x[i] > 0
    /\ df_esg_constraint[1].esg # df_esg_constraint[2].esg
    /\ \E m \in printed :
          m.strategy = "mvp" /\ m.esg > esg_bound * WScale

\* C10: the impact-ESG score of an instrument is the impact weight of its
\* sector code times (ESG score - ESG lower bound): 150 for ESG 85 in sector
\* 41 (impact weight 10), and 0 in a sector of impact weight 0 whatever the
\* ESG score.
C10_ImpactEsgFormula ==
    impact_esg # <<>> =>
        /\ Len(impact_esg) = K
        /\ \A i \in 1..K :
              LET code == df_esg_constraint[i].nace_code
                  esg  == df_esg_constraint[i].esg
                  w    == IF code = <<"4", "1">> THEN 10 ELSE 0
              IN /\ nace_impact[i] = w
                 /\ impact_esg[i] = w * (esg - 70)
                 /\ (esg = 85 /\ w = 10 => impact_esg[i] = 150)
                 /\ (w = 0 => impact_esg[i] = 0)

C10_Witness ==
    /\ K = 2
    /\ impact_esg = <<150, 0>>
    /\ df_esg_constraint[1].esg = 85
    /\ df_esg_constraint[2].esg = 85

\* C11: the objective each strategy minimizes is
\*     risk(w) - returnCoef * (w . totalReturn) - scoreCoef * (w . scoreVector)
\* with risk(w) = w^T C w, totalReturn the per-instrument sum of the period
\* returns and scoreVector the ESG vector (coefficient 0.00002) or the
\* impact-ESG vector (coefficient 0.000004); with both coefficients 0 it is
\* risk(w), the objective of the minimum-volatility solve.  The formula is
\* written out in the units of BlendedObjective; a converged result
\* minimizes it over the feasible weights.
ObjectiveFormula(retCoef, scoreCoef, score, x) ==
    CoefDen * SumSeq([i \in 1..K |->
                 SumSeq([j \in 1..K |-> x[i] * covMatrix[i][j] * x[j]])])
      - retCoef * WScale * CovScale * RetScale
          * SumSeq([i \in 1..K |-> x[i] * TotalReturn(returns)[i]])
      - scoreCoef * WScale * CovScale * RetScale * RetScale
          * SumSeq([i \in 1..K |-> x[i] * score[i]])

StrategyFormula(strategy, x) ==
    IF strategy = "mvp"
    THEN ObjectiveFormula(0, 0, EsgVector(df_esg_constraint), x)
    ELSE IF strategy = "esg_ret_mvp"
    THEN ObjectiveFormula(RetCoef, EsgCoef, EsgVector(df_esg_constraint), x)
    ELSE ObjectiveFormula(RetCoef, ImpactCoef,
                          ImpactEsgVector(df_esg_constraint, nace_impact), x)

C11_ObjectiveFormula ==
    /\ \A s \in {"mvp", "esg_ret_mvp", "impact_esg_mvp"} :
          ResultOf(s).success =>
             \A y \in FeasibleSet(K) :
                StrategyFormula(s, ResultOf(s).x) <= StrategyFormula(s, y)
    /\ mvp.success =>
          \A x \in FeasibleSet(K) :
             /\ FMul(CoefDen, risk_measure(covMatrix, x))
                   = StrategyFormula("mvp", x)
             /\ BlendedObjective(covMatrix, TotalReturn(returns), CovScale,
                                 EsgVector(df_esg_constraint), EsgCoef, x)
                   = StrategyFormula("esg_ret_mvp", x)
             /\ nace_impact # <<>> =>
                   BlendedObjective(covMatrix, TotalReturn(returns), CovScale,
                                    ImpactEsgVector(df_esg_constraint,
                                                    nace_impact),
                                    ImpactCoef, x)
                      = StrategyFormula("impact_esg_mvp", x)

C11_Witness ==
    /\ K = 2
    /\ mvp.success /\ esg_ret_mvp.success /\ impact_esg_mvp.success
    /\ esg_ret_mvp.x # mvp.x
    /\ impact_esg_mvp.x # esg_ret_mvp.x

\* C12: calcWeightsForPieChart returns, for each sector code occurring in
\* the universe, the sum of the weights of exactly the instruments with that
\* code; each instrument is counted in exactly one sector, so the sector
\* totals add up to the sum of all weights.
RECURSIVE SumOver(_, _)
SumOver(f, S) ==
    IF S = {} THEN 0
    ELSE LET s == CHOOSE t \in S : TRUE
         IN FAdd(f[s], SumOver(f, S \ {s}))

Aggregated ==
    /\ pc \in {"weights_mvp", "weights_esg_ret", "weights_impact",
                "esg_ret", "impact", "scores", "impact_solve", "compare",
                "done"}
    /\ Len(weight) = K /\ K >= 1

C12_SectorTotals ==
    Aggregated =>
        /\ DOMAIN piesizes =
              {df_esg_constraint[i].nace_code : i \in 1..K}
        /\ \A s \in DOMAIN piesizes :
              piesizes[s] =
                 FSum(SelectRows(weight,
                         [i \in 1..K |-> df_esg_constraint[i].nace_code = s]))
        /\ \A i \in 1..K :
              Cardinality({s \in DOMAIN piesizes :
                              df_esg_constraint[i].nace_code = s}) = 1
        /\ SumOver(piesizes, DOMAIN piesizes) = FSum(weight)

C12_Witness ==
    /\ Aggregated
    /\ K = 2
    /\ df_esg_constraint[1].nace_code = df_esg_constraint[2].nace_code
    /\ weight = <<1, 1>>
    /\ piesizes[df_esg_constraint[1].nace_code] = WScale

\* C13: with the covariance, the returns, the score vector and the return
\* coefficient fixed, the optimal weight vectors of the blended solve for
\* strictly increasing score coefficients have a non-decreasing score
\* w . scoreVector.  The solve of cell "esg_ret" (and of cell
\* "impact_solve") is evaluated on the statistics of the run for each
\* coefficient of SweepCoefs in place of its literal.
SweepCoefs ==
    {0, ImpactCoef, EsgCoef, 1000 * EsgCoef, 10000 * EsgCoef}

SweepOptima(total, score, scoreCoef) ==
    {r \in Minimize([x \in FeasibleSet(K) |->
                        BlendedObjective(covMatrix, total, CovScale, score,
                                         scoreCoef, x)], K) :
        r.success}

\* the pairs <<coefficient, score of an optimum for it>>
SweepTable(score) ==
    UNION {{<<c, Dot(r.x, score)>> : r \in SweepOptima(total, score, c)} :
              c \in SweepCoefs, total \in {TotalReturn(returns)}}

\* the score vector of the solve that has just run: the ESG vector after
\* cell "esg_ret", the impact-ESG vector after cell "impact_solve"
SweepScores ==
    IF pc = "weights_esg_ret" THEN {EsgVector(df_esg_constraint)}
    ELSE IF pc = "compare"
    THEN {ImpactEsgVector(df_esg_constraint, nace_impact)}
    ELSE {}

C14_SolvesIndependent ==
    pc = "any" =>
        /\ returns = ComputeReturns(timeseries_data)
        /\ covMatrix = Cov(returns)
        /\ \A strategy \in Strategies :
              Stored(strategy).x # <<>> =>
                 Stored(strategy) \in Minimize(Objective(strategy), K)

C14_Witness ==
    /\ pc = "any" /\ err = "none"
    /\ K = 2
    /\ mvp.success /\ esg_ret_mvp.success /\ impact_esg_mvp.x = <<>>
    /\ weight = mvp.x
    /\ esg_ret_mvp.x # mvp.x

\* C15: sector-code extraction takes the two characters at positions
\* [-6, -4) of the classification string: for a string of the form
\* 'DESCRIPTION (NACE) (XX.YY)' the extracted code is XX, and for
\* "Construction of buildings (NACE) (41.10)" it is "41".
ConstructionOfBuildings ==
    <<"C", "o", "n", "s", "t", "r", "u", "c", "t", "i", "o", "n", " ", "o",
      "f", " ", "b", "u", "i", "l", "d", "i", "n", "g", "s", " ", "(", "N",
      "A", "C", "E", ")", " ", "(", "4", "1", ".", "1", "0", ")">>

\* the string ends in "(XX.YY)"
IsClassification(nace) ==
    /\ Len(nace) >= 7
    /\ nace[Len(nace) - 6] = "("
    /\ nace[Len(nace) - 3] = "."
    /\ nace[Len(nace)] = ")"

C15_CodeIsDivision ==
    /\ IsClassification(ConstructionOfBuildings)
    /\ NaceCode(ConstructionOfBuildings) = <<"4", "1">>
    /\ pc \notin {"get_data", "nace"} =>
          /\ Len(nace_code_list) = Len(df_esg)
          /\ \A i \in 1..Len(df_esg) :
                LET nace == df_esg[i].nace
                IN IsClassification(nace) =>
                      nace_code_list[i] =
                         <<nace[Len(nace) - 5], nace[Len(nace) - 4]>>

C15_Witness ==
    /\ pc = "filter"
    /\ df_esg[1].nace = Classification("4", "1")
    /\ nace_code_list[1] = <<"4", "1">>
    /\ df_esg[2].nace = Classification("6", "4")
    /\ nace_code_list[2] = <<"6", "4">>

\* C16: in every run the instruments of the covariance matrix and of the
\* summed returns are the K filtered instruments, in the same order, also
\* when the fetch of a time series fails and the instrument is skipped; so
\* component i of a weight vector means the same instrument in the risk,
\* the return and the score term.
C16_InstrumentsAligned ==
    LET instruments == [i \in 1..K |-> df_esg_constraint[i].ric]
    IN /\ pc \notin {"get_data", "nace", "filter", "timeseries"} =>
             timeseries_data.columns = instruments
       /\ (pc \notin {"get_data", "nace", "filter", "timeseries"}
             /\ ~(pc = "mvp" /\ err = "none")) =>
                /\ returns.columns = instruments
                /\ Len(covMatrix) = K
                /\ Len(TotalReturn(returns)) = K

====
